---- MODULE Spec2Model ----
(***************************************************************************)
(* Model of the in-memory event index of nostr-database                    *)
(* (crates/nostr-database/src/index.rs): the ordered set of EventIndex     *)
(* entries, the tombstones (deleted_ids), the deleted coordinates, the     *)
(* admission operations index_event, bulk_index and clear, and the reads   *)
(* query, count, has_event_id_been_deleted and has_coordinate_been_deleted.*)
(***************************************************************************)
EXTENDS Integers, Sequences, FiniteSets, TLC

VARIABLES index, deleted_ids, deleted_coordinates, now, pre, result, scenario,
          calls, pc, held, locks, local, committed

\* The tasks that run calls concurrently, their positions and the RwLocks.
tasks == <<calls, pc, held, locks, local, committed>>

vars == <<index, deleted_ids, deleted_coordinates, now, pre, result, scenario,
          calls, pc, held, locks, local, committed>>

(***************************************************************************)
(* Bounds of the model.                                                    *)
(***************************************************************************)
\* Largest number of raw events handed to one bulk_index call.
MaxBatch == 3
\* Largest number of tasks that make their calls at the same time.
MaxTasks == 4

(***************************************************************************)
(* Option<T>: None is the empty sequence, Some(x) the one-element one.     *)
(***************************************************************************)
None == << >>
Some(x) == <<x>>

(***************************************************************************)
(* Public keys and their prefixes.                                         *)
(***************************************************************************)
PUBLIC_KEY_PREFIX_SIZE == 8
PUBLIC_KEY_SIZE == 32

\* A 32-byte x-only public key whose first 8 bytes are p and the rest s.
Key(p, s) == [i \in 1..PUBLIC_KEY_SIZE |-> IF i <= PUBLIC_KEY_PREFIX_SIZE THEN p ELSE s]

KeyA == Key(1, 1)
\* Another key with the same first 8 bytes as KeyA.
KeyA2 == Key(1, 2)
KeyB == Key(2, 1)

\* impl From<[u8; 32]> for PublicKeyPrefix: the first 8 bytes.
PublicKeyPrefix(pk) == SubSeq(pk, 1, PUBLIC_KEY_PREFIX_SIZE)

(***************************************************************************)
(* Kinds.                                                                  *)
(***************************************************************************)
TextNote == 1
Metadata == 0
ContactList == 3
EventDeletion == 5
ParamKind == 30000
EphemeralKind == 20000

is_replaceable(kind) == kind = Metadata \/ kind = ContactList \/ (kind >= 10000 /\ kind < 20000)
is_ephemeral(kind) == kind >= 20000 /\ kind < 30000
is_parameterized_replaceable(kind) == kind >= 30000 /\ kind < 40000

(***************************************************************************)
(* Events.  An event is determined by its id (the id is a hash of the      *)
(* content).  tags holds the d tag values (at most one d tag per event),   *)
(* the ids of the e tags and the coordinates of the a tags; expiration is  *)
(* the optional expiration timestamp.                                      *)
(***************************************************************************)
Coordinate(kind, pubkey, identifier) ==
    [kind |-> kind, pubkey |-> pubkey, identifier |-> identifier]

Ev(id, pubkey, kind, created_at, d, e, a, expiration) ==
    [id |-> id, pubkey |-> pubkey, kind |-> kind, created_at |-> created_at,
     d |-> d, e |-> e, a |-> a, expiration |-> expiration]

CoordAX == Coordinate(ParamKind, KeyA, "x")
CoordAAny == Coordinate(ParamKind, KeyA, "")
CoordA0 == Coordinate(Metadata, KeyA, "")

Events ==
    { Ev(1, KeyA, TextNote, 1, <<>>, {}, {}, None),
      Ev(2, KeyA, Metadata, 1, <<>>, {}, {}, None),
      Ev(3, KeyA, Metadata, 2, <<>>, {}, {}, None),
      Ev(4, KeyA, Metadata, 2, <<>>, {}, {}, None),
      Ev(5, KeyA, ParamKind, 1, <<"x">>, {}, {}, None),
      Ev(6, KeyA, ParamKind, 2, <<"x">>, {}, {}, None),
      Ev(7, KeyA, ParamKind, 2, <<"x">>, {}, {}, None),
      Ev(8, KeyA, ParamKind, 1, <<"y">>, {}, {}, None),
      Ev(9, KeyA, ParamKind, 1, <<>>, {}, {}, None),
      Ev(10, KeyB, ParamKind, 1, <<"x">>, {}, {}, None),
      Ev(11, KeyA, EventDeletion, 2, <<>>, {1, 10}, {CoordAX}, None),
      Ev(12, KeyA, EventDeletion, 1, <<>>, {}, {CoordAX, CoordA0}, None),
      Ev(13, KeyB, EventDeletion, 2, <<>>, {1}, {CoordAAny}, None),
      Ev(14, KeyA, EphemeralKind, 1, <<>>, {}, {}, None),
      Ev(15, KeyA2, TextNote, 1, <<>>, {}, {}, Some(1)),
      Ev(16, KeyB, Metadata, 1, <<>>, {}, {}, None),
      Ev(17, KeyA, ContactList, 1, <<>>, {}, {}, None),
      Ev(18, KeyA, EventDeletion, 3, <<>>, {15}, {CoordAAny}, None),
      Ev(19, KeyA2, ParamKind, 3, <<"x">>, {}, {}, None) }

EventOf(id) == CHOOSE ev \in Events : ev.id = id

\* Event::identifier / RawEvent::identifier: the value of the d tag.
identifier(event) == IF Len(event.d) = 0 THEN None ELSE Some(Head(event.d))
\* Event::is_expired / RawEvent::is_expired(now).
is_expired(event, t) == event.expiration # None /\ event.expiration[1] < t

Range(s) == {s[i] : i \in DOMAIN s}

(***************************************************************************)
(* TagIndexes: for every single-letter tag of the event, the set of the    *)
(* first values of the tags with that letter.                              *)
(***************************************************************************)
EmptyTags == [l \in {} |-> {}]

TagIndexes(event) ==
    [l \in ({"d" : i \in DOMAIN event.d} \cup {"e" : x \in event.e} \cup {"a" : c \in event.a}) |->
        CASE l = "d" -> Range(event.d)
          [] l = "e" -> event.e
          [] l = "a" -> event.a]

(***************************************************************************)
(* EventIndex and its total order.                                         *)
(***************************************************************************)
\* impl From<&Event> for EventIndex
EventIndex(e) ==
    [created_at |-> e.created_at,
     event_id |-> e.id,
     pubkey |-> PublicKeyPrefix(e.pubkey),
     kind |-> e.kind,
     tags |-> TagIndexes(e)]

\* impl Ord for EventIndex: created_at descending, then event_id ascending.
cmp(self, other) ==
    IF self.created_at # other.created_at
    THEN (IF self.created_at > other.created_at THEN "Less" ELSE "Greater")
    ELSE (IF self.event_id < other.event_id THEN "Less"
          ELSE IF self.event_id > other.event_id THEN "Greater" ELSE "Equal")

\* insert without the test for an equal element.
insert_duplicate(idx, entry) ==
    LET k == Cardinality({i \in DOMAIN idx : cmp(idx[i], entry) = "Less"})
    IN SubSeq(idx, 1, k) \o <<entry>> \o SubSeq(idx, k + 1, Len(idx))

\* BTreeSet::insert: the set is kept as the sequence of its elements in
\* ascending cmp order; an element equal (by cmp) to a present one is not added.
insert(idx, entry) ==
    IF \E i \in DOMAIN idx : cmp(idx[i], entry) = "Equal"
    THEN idx
    ELSE LET k == Cardinality({i \in DOMAIN idx : cmp(idx[i], entry) = "Less"})
         IN SubSeq(idx, 1, k) \o <<entry>> \o SubSeq(idx, k + 1, Len(idx))

\* index.retain(|e| !to_discard.contains(&e.event_id))
retain(idx, to_discard) ==
    LET keep(entry) == entry.event_id \notin to_discard
    IN SelectSeq(idx, keep)

(***************************************************************************)
(* Filter (nostr) and FilterIndex.                                         *)
(***************************************************************************)
FilterNew ==
    [ids |-> {}, authors |-> {}, kinds |-> {}, since |-> None, until |-> None,
     limit |-> None, generic_tags |-> EmptyTags]

\* FilterIndex::default()
FilterIndexDefault ==
    [ids |-> {}, authors |-> {}, kinds |-> {}, since |-> None, until |-> None,
     generic_tags |-> EmptyTags]

\* impl From<Filter> for FilterIndex: authors become prefixes, limit is dropped.
FilterIndex(filter) ==
    [ids |-> filter.ids,
     authors |-> {PublicKeyPrefix(pk) : pk \in filter.authors},
     kinds |-> filter.kinds,
     since |-> filter.since,
     until |-> filter.until,
     generic_tags |-> filter.generic_tags]

\* Filter::identifier / FilterIndex::identifier: add a value to the d tag set.
with_identifier(f, id) ==
    [f EXCEPT !.generic_tags =
        [l \in (DOMAIN f.generic_tags) \cup {"d"} |->
            IF l = "d"
            THEN (IF "d" \in DOMAIN f.generic_tags THEN f.generic_tags["d"] ELSE {}) \cup {id}
            ELSE f.generic_tags[l]]]

\* impl From<Coordinate> for Filter: author, kind and, when the identifier is
\* not empty, the d tag.
CoordinateFilter(c) ==
    LET f == [FilterNew EXCEPT !.authors = {c.pubkey}, !.kinds = {c.kind}]
    IN IF c.identifier = "" THEN f ELSE with_identifier(f, c.identifier)

ids_match(f, event) == f.ids = {} \/ event.event_id \in f.ids

authors_match(f, event) == f.authors = {} \/ event.pubkey \in f.authors

tag_match(f, event) ==
    IF DOMAIN f.generic_tags = {} THEN TRUE
    ELSE IF DOMAIN event.tags = {} THEN FALSE
    ELSE \A tagname \in DOMAIN f.generic_tags :
            /\ tagname \in DOMAIN event.tags
            /\ f.generic_tags[tagname] \cap event.tags[tagname] # {}

\* kind_match that lets every kind through.
kind_match_any(f, kind) == TRUE

kind_match(f, kind) == f.kinds = {} \/ kind \in f.kinds

match_event(f, event) ==
    /\ ids_match(f, event)
    /\ (f.since = None \/ event.created_at >= f.since[1])
    /\ (f.until = None \/ event.created_at <= f.until[1])
    /\ kind_match(f, event.kind)
    /\ authors_match(f, event)
    /\ tag_match(f, event)

(***************************************************************************)
(* Scans.  f is a FilterIndex.  The result is in index order.              *)
(***************************************************************************)
internal_parallel_query(idx, del, f) ==
    LET hit(event) == event.event_id \notin del /\ match_event(f, event)
    IN SelectSeq(idx, hit)

internal_query(idx, del, f) == internal_parallel_query(idx, del, f)

(***************************************************************************)
(* index_event.  Returns the three collections after the call and the      *)
(* EventIndexResult {to_store, to_discard}.                                *)
(***************************************************************************)
State(idx, del, dc) == [index |-> idx, deleted_ids |-> del, deleted_coordinates |-> dc]

\* HashMap::insert(coordinate, created_at) for every coordinate of cs.
insert_coordinates(dc, cs, created_at) ==
    [c \in (DOMAIN dc) \cup cs |-> IF c \in cs THEN created_at ELSE dc[c]]

\* own_coordinates without the comparison of the pubkey prefixes.
own_coordinates_unchecked(event) == event.a

\* The coordinates of the a tags whose pubkey prefix is the event's.
own_coordinates(event) ==
    {c \in event.a : PublicKeyPrefix(c.pubkey) = PublicKeyPrefix(event.pubkey)}

\* The scan of a replaceable event: an existing entry that is strictly newer
\* keeps the new event out.
replaceable_insert(found, created_at) ==
    ~ \E ev \in found : ev.created_at > created_at

\* The scan of a replaceable event: the entries that are not newer are discarded.
replaceable_discard(found, created_at) ==
    {ev.event_id : ev \in {x \in found : x.created_at <= created_at}}

\* parameterized_insert with the strict comparison of the replaceable scan.
parameterized_insert_strict(found, created_at) ==
    ~ \E ev \in found : ev.created_at > created_at

\* The scan of a parameterized replaceable event: an existing entry that is
\* newer or as old keeps the new event out.
parameterized_insert(found, created_at) ==
    ~ \E ev \in found : ev.created_at >= created_at

\* parameterized_discard with the comparison of the replaceable scan.
parameterized_discard_tie(found, created_at) ==
    {ev.event_id : ev \in {x \in found : x.created_at <= created_at}}

\* The scan of a parameterized replaceable event: the strictly older entries
\* are discarded.
parameterized_discard(found, created_at) ==
    {ev.event_id : ev \in {x \in found : x.created_at < created_at}}

\* The match on the identifier without the None arm.
parameterized_should_insert_any(id, found, created_at) ==
    parameterized_insert(found, created_at)

\* match identifier(): Some(identifier) => the scan; None => should_insert = false.
parameterized_should_insert(id, found, created_at) ==
    id # None /\ parameterized_insert(found, created_at)

\* deleted_ids after a par_extend that forgets the ids it held.
deleted_ids_replaced(del, to_discard) == to_discard

\* deleted_ids.par_extend(to_discard.par_iter())
deleted_ids_par_extend(del, to_discard) == del \cup to_discard

\* deletion_by_ids that takes every id of the e tags, in the index or not.
deletion_by_ids_absent(idx, del, event) ==
    {[event_id |-> id] : id \in event.e}

\* The e tags of a deletion: the entries with one of the ids, created no later
\* than the deletion, whose pubkey prefix is the deletion author's.
deletion_by_ids(idx, del, event) ==
    IF event.e = {} THEN {}
    ELSE {ev \in Range(internal_parallel_query(idx, del,
                FilterIndex([FilterNew EXCEPT !.ids = event.e,
                                              !.until = Some(event.created_at)]))) :
            ev.pubkey = PublicKeyPrefix(event.pubkey)}

\* The a tags of a deletion: the entries that match one of the author's own
\* coordinates, created no later than the deletion.
deletion_by_coordinates(idx, del, event) ==
    UNION {Range(internal_parallel_query(idx, del,
                FilterIndex([CoordinateFilter(c) EXCEPT !.until = Some(event.created_at)]))) :
            c \in own_coordinates(event)}

index_event(st, event, t_now) ==
    IF is_expired(event, t_now) \/ is_ephemeral(event.kind)
    THEN [st |-> st, to_store |-> FALSE, to_discard |-> {}]
    ELSE IF event.id \in st.deleted_ids
    THEN [st |-> st, to_store |-> FALSE, to_discard |-> {event.id}]
    ELSE
    LET idx == st.index
        del == st.deleted_ids
        author_kind == [FilterNew EXCEPT !.authors = {event.pubkey}, !.kinds = {event.kind}]
        replaceable == Range(internal_query(idx, del, FilterIndex(author_kind)))
        parameterized ==
            IF identifier(event) = None THEN {}
            ELSE Range(internal_query(idx, del,
                        FilterIndex(with_identifier(author_kind, identifier(event)[1]))))
        should_insert ==
            IF is_replaceable(event.kind)
            THEN replaceable_insert(replaceable, event.created_at)
            ELSE IF is_parameterized_replaceable(event.kind)
            THEN parameterized_should_insert(identifier(event), parameterized, event.created_at)
            ELSE TRUE
        to_discard ==
            IF is_replaceable(event.kind)
            THEN replaceable_discard(replaceable, event.created_at)
            ELSE IF is_parameterized_replaceable(event.kind)
            THEN parameterized_discard(parameterized, event.created_at)
            ELSE IF event.kind = EventDeletion
            THEN {ev.event_id :
                    ev \in deletion_by_ids(idx, del, event) \cup deletion_by_coordinates(idx, del, event)}
            ELSE {}
        dc1 ==
            IF ~ is_replaceable(event.kind) /\ ~ is_parameterized_replaceable(event.kind)
               /\ event.kind = EventDeletion
            THEN insert_coordinates(st.deleted_coordinates, own_coordinates(event), event.created_at)
            ELSE st.deleted_coordinates
        idx1 == IF to_discard # {} THEN retain(idx, to_discard) ELSE idx
        del1 == IF to_discard # {} THEN deleted_ids_par_extend(del, to_discard) ELSE del
        idx2 == IF should_insert THEN insert(idx1, EventIndex(event)) ELSE idx1
    IN [st |-> State(idx2, del1, dc1), to_store |-> should_insert, to_discard |-> to_discard]

(***************************************************************************)
(* Raw events and bulk_index.                                              *)
(***************************************************************************)
EVENT_ID_SIZE == 32

\* The id as 32 bytes (big endian).
IdBytes(id) == [i \in 1..EVENT_ID_SIZE |-> IF i = EVENT_ID_SIZE THEN id ELSE 0]

\* The number the bytes spell, the first byte the most significant.
BigEndian(bytes) ==
    LET value[i \in 0..Len(bytes)] ==
            IF i = 0 THEN 0 ELSE value[i - 1] * 256 + bytes[i]
    IN value[Len(bytes)]

\* EventId::from_slice: an error (None) unless the slice has 32 bytes.
EventIdFromSlice(bytes) ==
    IF Len(bytes) = EVENT_ID_SIZE THEN Some(BigEndian(bytes)) ELSE None

Raw(event) == [event EXCEPT !.id = IdBytes(event.id)]

\* A raw event whose id has 31 bytes.
MalformedRaw == [Raw(EventOf(1)) EXCEPT !.id = SubSeq(IdBytes(1), 1, EVENT_ID_SIZE - 1)]

\* acc is [index, deleted_ids, deleted_coordinates, to_discard].
index_raw_event(acc, raw, t_now) ==
    LET parsed == EventIdFromSlice(raw.id) IN
    IF parsed = None THEN acc
    ELSE
    LET event_id == parsed[1]
        idx == acc.index
        del == acc.deleted_ids
    IN
    IF event_id \in del THEN acc
    ELSE IF is_expired(raw, t_now)
    THEN [acc EXCEPT !.to_discard = @ \cup {event_id}]
    ELSE
    LET pubkey_prefix == PublicKeyPrefix(raw.pubkey)
        author_kind == [FilterIndexDefault EXCEPT !.authors = {pubkey_prefix}, !.kinds = {raw.kind}]
        replaceable == Range(internal_query(idx, del, author_kind))
        parameterized ==
            IF identifier(raw) = None THEN {}
            ELSE Range(internal_query(idx, del, with_identifier(author_kind, identifier(raw)[1])))
        should_insert ==
            IF is_replaceable(raw.kind)
            THEN replaceable_insert(replaceable, raw.created_at)
            ELSE IF is_parameterized_replaceable(raw.kind)
            THEN parameterized_should_insert(identifier(raw), parameterized, raw.created_at)
            ELSE TRUE
        discard ==
            IF is_replaceable(raw.kind)
            THEN replaceable_discard(replaceable, raw.created_at)
            ELSE IF is_parameterized_replaceable(raw.kind)
            THEN parameterized_discard(parameterized, raw.created_at)
            ELSE IF raw.kind = EventDeletion
            THEN {ev.event_id :
                    ev \in deletion_by_ids(idx, del, raw) \cup deletion_by_coordinates(idx, del, raw)}
            ELSE {}
        dc1 ==
            IF ~ is_replaceable(raw.kind) /\ ~ is_parameterized_replaceable(raw.kind)
               /\ raw.kind = EventDeletion
            THEN insert_coordinates(acc.deleted_coordinates, own_coordinates(raw), raw.created_at)
            ELSE acc.deleted_coordinates
        entry == [created_at |-> raw.created_at, event_id |-> event_id,
                  pubkey |-> pubkey_prefix, kind |-> raw.kind, tags |-> TagIndexes(raw)]
    IN [index |-> IF should_insert THEN insert(idx, entry) ELSE idx,
        deleted_ids |-> del,
        deleted_coordinates |-> dc1,
        to_discard |-> acc.to_discard \cup discard]

\* The batch with no filter.
not_filtered(events) == events

\* .filter(|raw| !raw.kind.is_ephemeral())
not_ephemeral(events) ==
    LET keep(raw) == ~ is_ephemeral(raw.kind)
    IN SelectSeq(events, keep)

RECURSIVE index_raw_events_abort(_, _, _)
\* The for_each that stops at the first event index_raw_event fails on.
index_raw_events_abort(acc, events, t_now) ==
    IF Len(events) = 0 \/ EventIdFromSlice(Head(events).id) = None THEN acc
    ELSE index_raw_events_abort(index_raw_event(acc, Head(events), t_now), Tail(events), t_now)

RECURSIVE index_raw_events(_, _, _)
\* .for_each(|event| { let _ = self.index_raw_event(..); }): the error of one
\* event is dropped and the next event is taken.
index_raw_events(acc, events, t_now) ==
    IF Len(events) = 0 THEN acc
    ELSE index_raw_events(index_raw_event(acc, Head(events), t_now), Tail(events), t_now)

\* events is the batch in the iteration order of the BTreeSet<RawEvent>.
bulk_index(st, events, t_now) ==
    LET acc == index_raw_events(
                  [index |-> st.index, deleted_ids |-> st.deleted_ids,
                   deleted_coordinates |-> st.deleted_coordinates, to_discard |-> {}],
                  not_ephemeral(events), t_now)
        to_discard == acc.to_discard
    IN [st |-> State(IF to_discard # {} THEN retain(acc.index, to_discard) ELSE acc.index,
                     IF to_discard # {} THEN deleted_ids_par_extend(acc.deleted_ids, to_discard)
                     ELSE acc.deleted_ids,
                     acc.deleted_coordinates),
        to_discard |-> to_discard]

\* DatabaseIndexes::clear
clear(st) == State(<< >>, {}, EmptyTags)

\* DatabaseIndexes::has_event_id_been_deleted
has_event_id_been_deleted(st, event_id) == event_id \in st.deleted_ids

\* DatabaseIndexes::has_coordinate_been_deleted
has_coordinate_been_deleted(st, coordinate, timestamp) ==
    IF coordinate \in DOMAIN st.deleted_coordinates
    THEN st.deleted_coordinates[coordinate] >= timestamp
    ELSE FALSE

(***************************************************************************)
(* query and count.  filters is the sequence the IntoIterator yields.      *)
(***************************************************************************)
\* Filter::is_empty: the filter is Filter::default().
filter_is_empty(filter) == filter = FilterNew

\* if let (Some(since), Some(until)) = (filter.since, filter.until): since > until
since_after_until(filter) ==
    filter.since # None /\ filter.until # None /\ filter.since[1] > filter.until[1]

\* take that lets every element through.
take_all(s, limit) == s

\* Iterator::take(limit)
take(s, limit) == SubSeq(s, 1, IF limit < Len(s) THEN limit ELSE Len(s))

\* The entries one filter contributes: the first limit matches in index order
\* when the filter has a limit, all the matches otherwise.
filter_matches(idx, del, filter) ==
    IF filter.limit # None
    THEN take(internal_query(idx, del, FilterIndex(filter)), filter.limit[1])
    ELSE internal_parallel_query(idx, del, FilterIndex(filter))

RECURSIVE par_extend(_, _)
\* par_extend that appends the entries without looking for an equal one.
par_extend_append(matching_ids, entries) == matching_ids \o entries

\* BTreeSet<&EventIndex>::par_extend: every entry is inserted into the set.
par_extend(matching_ids, entries) ==
    IF Len(entries) = 0 THEN matching_ids
    ELSE par_extend(insert(matching_ids, Head(entries)), Tail(entries))

\* .map(|e| e.event_id).collect()
event_ids(entries) == [i \in 1..Len(entries) |-> entries[i].event_id]

RECURSIVE query_filters(_, _, _)
\* The loop of query over the filters that are left.
query_filters(st, filters, matching_ids) ==
    IF Len(filters) = 0 THEN event_ids(matching_ids)
    ELSE LET filter == Head(filters) IN
         IF filter_is_empty(filter) THEN event_ids(st.index)
         ELSE IF since_after_until(filter)
         THEN query_filters(st, Tail(filters), matching_ids)
         ELSE query_filters(st, Tail(filters),
                  par_extend(matching_ids, filter_matches(st.index, st.deleted_ids, filter)))

\* DatabaseIndexes::query
query(st, filters) == query_filters(st, filters, << >>)

\* count with the entries that are not tombstoned in place of index.len().
index_len_live(idx, del) == Len(internal_parallel_query(idx, del, FilterIndexDefault))

\* counter = index.len()
index_len(idx, del) == Len(idx)

\* count_with_limit that caps the matches at the limit.
count_with_limit_min(limit, c) == IF limit <= c THEN limit ELSE c

\* The number one filter with a limit adds to the counter.
count_with_limit(limit, c) == IF limit >= c THEN limit ELSE c

RECURSIVE count_filters(_, _, _)
\* The loop of count over the filters that are left.
count_filters(st, filters, counter) ==
    IF Len(filters) = 0 THEN counter
    ELSE LET filter == Head(filters) IN
         IF filter_is_empty(filter) THEN index_len(st.index, st.deleted_ids)
         ELSE IF since_after_until(filter)
         THEN count_filters(st, Tail(filters), counter)
         ELSE LET c == Len(internal_parallel_query(st.index, st.deleted_ids, FilterIndex(filter)))
              IN count_filters(st, Tail(filters),
                     counter + (IF filter.limit # None
                                THEN count_with_limit(filter.limit[1], c) ELSE c))

\* DatabaseIndexes::count
count(st, filters) == count_filters(st, filters, 0)

(***************************************************************************)
(* The state machine.  A scenario is the set of events the callers hold    *)
(* and the pool the bulk_index batches are drawn from.  result is the      *)
(* value the last call returned, until the caller takes it; pre is the     *)
(* value of the three collections when that call was made.                 *)
(***************************************************************************)
Scenario(events, pool, malformed) ==
    [events |-> events, pool |-> pool, malformed |-> malformed]

Scenarios ==
    { Scenario({2, 3, 4, 12, 16, 17}, {2, 3, 4}, FALSE),
      Scenario({5, 6, 7, 8, 9, 10, 19}, {5, 6, 7, 9}, FALSE),
      Scenario({1, 5, 6, 10, 11, 12, 13}, {5, 11, 12}, FALSE),
      Scenario({2, 3, 5, 6, 11, 12, 19}, {3, 6, 12}, FALSE),
      Scenario({1, 2, 8, 14, 15, 18}, {14, 15, 18}, TRUE) }

ScenarioEvents == {ev \in Events : ev.id \in scenario.events}

Current == State(index, deleted_ids, deleted_coordinates)

\* The value a call returned: the EventIndexResult of index_event, the set
\* bulk_index returns; filters, ids and count are those of query and count;
\* coordinate, timestamp and deleted those of the has_..._been_deleted calls.
Result(op, event, batch, to_store, to_discard) ==
    [op |-> op, event |-> event, batch |-> batch, to_store |-> to_store,
     to_discard |-> to_discard, filters |-> << >>, ids |-> << >>, count |-> 0,
     coordinate |-> None, timestamp |-> 0, deleted |-> FALSE]

Idle == Result("idle", 0, << >>, FALSE, {})

Install(st) ==
    /\ index' = st.index
    /\ deleted_ids' = st.deleted_ids
    /\ deleted_coordinates' = st.deleted_coordinates
    /\ pre' = Current

\* One caller at a time: no call finds a lock taken.
NoTasks ==
    /\ calls = << >>
    /\ pc = << >>
    /\ held = << >>
    /\ locks = << >>
    /\ local = << >>
    /\ committed = << >>

\* DatabaseIndexes::new()
Init ==
    /\ index = << >>
    /\ deleted_ids = {}
    /\ deleted_coordinates = EmptyTags
    /\ now = 1
    /\ pre = State(<< >>, {}, EmptyTags)
    /\ result = Idle
    /\ scenario \in Scenarios
    /\ NoTasks

IndexEvent ==
    /\ result = Idle
    /\ \E event \in ScenarioEvents :
        LET r == index_event(Current, event, now) IN
        /\ Install(r.st)
        /\ result' = Result("index_event", event.id, << >>, r.to_store, r.to_discard)
    /\ UNCHANGED <<now, scenario, tasks>>

\* The batches: sequences of at most MaxBatch different raw events.
BatchPool ==
    {Raw(ev) : ev \in {x \in Events : x.id \in scenario.pool}}
        \cup (IF scenario.malformed THEN {MalformedRaw} ELSE {})

Batches ==
    {b \in UNION {[1..n -> BatchPool] : n \in 0..MaxBatch} :
        \A i, j \in DOMAIN b : i # j => b[i] # b[j]}

BulkIndex ==
    /\ result = Idle
    /\ \E batch \in Batches :
        LET r == bulk_index(Current, batch, now) IN
        /\ Install(r.st)
        /\ result' = Result("bulk_index", 0, batch, FALSE, r.to_discard)
    /\ UNCHANGED <<now, scenario, tasks>>

Clear ==
    /\ result = Idle
    /\ Install(clear(Current))
    /\ result' = Result("clear", 0, << >>, FALSE, {})
    /\ UNCHANGED <<now, scenario, tasks>>

FilterAuthorA == [FilterNew EXCEPT !.authors = {KeyA}]
FilterSince == [FilterNew EXCEPT !.since = Some(2)]
FilterInverted == [FilterNew EXCEPT !.since = Some(3), !.until = Some(1)]
FilterAuthorALimit == [FilterNew EXCEPT !.authors = {KeyA}, !.limit = Some(1)]
FilterLimit == [FilterNew EXCEPT !.limit = Some(2)]
FilterInvertedLimit == [FilterInverted EXCEPT !.limit = Some(2)]

\* The lists of filters handed to query and count.
FilterLists ==
    { << >>,
      <<FilterNew>>,
      <<FilterAuthorA>>,
      <<FilterAuthorA, FilterSince>>,
      <<FilterAuthorA, FilterNew>>,
      <<FilterInverted, FilterSince>>,
      <<FilterAuthorALimit, FilterSince>>,
      <<FilterLimit>>,
      <<FilterInvertedLimit, FilterAuthorA>> }

\* query takes the read locks and changes nothing.
Query ==
    /\ result = Idle
    /\ \E filters \in FilterLists :
        result' = [Idle EXCEPT !.op = "query", !.filters = filters,
                               !.ids = query(Current, filters)]
    /\ UNCHANGED <<index, deleted_ids, deleted_coordinates, now, pre, scenario, tasks>>

\* count takes the read locks and changes nothing.
Count ==
    /\ result = Idle
    /\ \E filters \in FilterLists :
        result' = [Idle EXCEPT !.op = "count", !.filters = filters,
                               !.count = count(Current, filters)]
    /\ UNCHANGED <<index, deleted_ids, deleted_coordinates, now, pre, scenario, tasks>>

\* has_event_id_been_deleted takes the read lock and changes nothing.
HasEventIdBeenDeleted ==
    /\ result = Idle
    /\ \E event \in ScenarioEvents :
        result' = [Idle EXCEPT !.op = "has_event_id_been_deleted", !.event = event.id,
                               !.deleted = has_event_id_been_deleted(Current, event.id)]
    /\ UNCHANGED <<index, deleted_ids, deleted_coordinates, now, pre, scenario, tasks>>

\* has_coordinate_been_deleted takes the read lock and changes nothing.
HasCoordinateBeenDeleted ==
    /\ result = Idle
    /\ \E d \in ScenarioEvents, e \in ScenarioEvents :
        \E c \in d.a :
            result' = [Idle EXCEPT !.op = "has_coordinate_been_deleted",
                                   !.coordinate = Some(c), !.timestamp = e.created_at,
                                   !.deleted = has_coordinate_been_deleted(Current, c, e.created_at)]
    /\ UNCHANGED <<index, deleted_ids, deleted_coordinates, now, pre, scenario, tasks>>

\* The caller takes the returned value.
Return ==
    /\ result # Idle
    /\ result' = Idle
    /\ pre' = Current
    /\ UNCHANGED <<index, deleted_ids, deleted_coordinates, now, scenario, tasks>>

\* The wall clock (Timestamp::now()) advances; once every expiration of the
\* scenario has passed, a later clock changes nothing.
Tick ==
    /\ result = Idle
    /\ \E ev \in ScenarioEvents : ev.expiration # None /\ now <= ev.expiration[1]
    /\ now' = now + 1
    /\ UNCHANGED <<index, deleted_ids, deleted_coordinates, pre, result, scenario, tasks>>

Next ==
    \/ IndexEvent \/ BulkIndex \/ Clear
    \/ Query \/ Count \/ HasEventIdBeenDeleted \/ HasCoordinateBeenDeleted
    \/ Return \/ Tick

Spec == Init /\ [][Next]_vars

(***************************************************************************)
(* Concurrent callers.  The three collections are tokio RwLocks; a call    *)
(* is a task that awaits its locks one after the other, works on the       *)
(* collections while it holds them and drops the guards, the last taken    *)
(* first, when it returns.  A task is suspended only while it awaits a     *)
(* lock.  calls is the call of every task, pc its position, held the       *)
(* number of guards it holds, locks the holders and the waiters of every   *)
(* lock, local the task's local variables, and committed the states the    *)
(* completed admissions left, each with the task that made it.             *)
(***************************************************************************)
Call(op, event, batch, filters, coordinate, timestamp) ==
    [op |-> op, event |-> event, batch |-> batch, filters |-> filters,
     coordinate |-> coordinate, timestamp |-> timestamp]

CallIndexEvent(id) == Call("index_event", id, << >>, << >>, None, 0)
CallBulkIndex(batch) == Call("bulk_index", 0, batch, << >>, None, 0)
CallClear == Call("clear", 0, << >>, << >>, None, 0)
CallQuery(filters) == Call("query", 0, << >>, filters, None, 0)
CallCount(filters) == Call("count", 0, << >>, filters, None, 0)
CallHasEventId(id) == Call("has_event_id_been_deleted", id, << >>, << >>, None, 0)
CallHasCoordinate(c, t) == Call("has_coordinate_been_deleted", 0, << >>, << >>, Some(c), t)

\* The fields of DatabaseIndexes, in the order of the struct.
LockNames == <<"index", "deleted_ids", "deleted_coordinates">>

Rank(l) == CHOOSE i \in DOMAIN LockNames : LockNames[i] = l

Writers == {"index_event", "bulk_index", "clear"}

\* clear taking its locks in the opposite order.
lock_plan_clear_reversed(op) ==
    CASE op = "clear" ->
            << <<"deleted_coordinates", "write">>, <<"deleted_ids", "write">>,
               <<"index", "write">> >>
      [] op \in {"index_event", "bulk_index"} ->
            << <<"index", "write">>, <<"deleted_ids", "write">>,
               <<"deleted_coordinates", "write">> >>
      [] op \in {"query", "count"} ->
            << <<"index", "read">>, <<"deleted_ids", "read">> >>
      [] op = "has_event_id_been_deleted" -> << <<"deleted_ids", "read">> >>
      [] op = "has_coordinate_been_deleted" -> << <<"deleted_coordinates", "read">> >>

\* Every call taking its locks shared.
lock_plan_all_shared(op) ==
    CASE op \in Writers \cup {"query", "count"} ->
            IF op \in Writers
            THEN << <<"index", "read">>, <<"deleted_ids", "read">>,
                    <<"deleted_coordinates", "read">> >>
            ELSE << <<"index", "read">>, <<"deleted_ids", "read">> >>
      [] op = "has_event_id_been_deleted" -> << <<"deleted_ids", "read">> >>
      [] op = "has_coordinate_been_deleted" -> << <<"deleted_coordinates", "read">> >>

\* The locks a call awaits, in the order of its .write().await and
\* .read().await expressions.
lock_plan(op) ==
    CASE op \in Writers ->
            << <<"index", "write">>, <<"deleted_ids", "write">>,
               <<"deleted_coordinates", "write">> >>
      [] op \in {"query", "count"} ->
            << <<"index", "read">>, <<"deleted_ids", "read">> >>
      [] op = "has_event_id_been_deleted" -> << <<"deleted_ids", "read">> >>
      [] op = "has_coordinate_been_deleted" -> << <<"deleted_coordinates", "read">> >>

Plan(p) == lock_plan(calls[p].op)

\* RwLock: no writer and no readers, nobody waiting.
FreeLock == [writer |-> 0, readers |-> {}, queue |-> << >>]

\* RwLock: many readers or one writer.
can_grant(lock, mode) ==
    IF mode = "write" THEN lock.writer = 0 /\ lock.readers = {}
    ELSE lock.writer = 0

\* The local variables of a task: should_insert and to_discard of an
\* admission; view is the value of the collections a read was computed
\* from, and value what the call returns.
Local(to_store, to_discard, view, value) ==
    [to_store |-> to_store, to_discard |-> to_discard, view |-> view, value |-> value]

NoLocal == Local(FALSE, {}, None, None)

Tasks == DOMAIN calls

TaskIds == 1..MaxTasks

\* What the sequential callers of the state machine above hold stays as it is.
Sequential == <<now, pre, result, scenario, calls>>

Collections == <<index, deleted_ids, deleted_coordinates>>

\* Task p exists and is at the label.
At(p, label) == p \in Tasks /\ pc[p] = label

Goto(p, label) == pc' = [pc EXCEPT ![p] = label]

\* index_event returns before it takes a lock when the event is expired or
\* ephemeral.
Reject(p) ==
    /\ At(p, "acquire") /\ held[p] = 0
    /\ calls[p].op = "index_event"
    /\ LET event == EventOf(calls[p].event) IN
          is_expired(event, now) \/ is_ephemeral(event.kind)
    /\ Goto(p, "done")
    /\ local' = [local EXCEPT ![p] = Local(FALSE, {}, None, None)]
    /\ UNCHANGED <<Collections, Sequential, held, locks, committed>>

\* lock.write().await, lock.read().await: the task joins the waiters.
Request(p) ==
    /\ At(p, "acquire")
    /\ ~ (/\ calls[p].op = "index_event"
          /\ LET event == EventOf(calls[p].event) IN
                is_expired(event, now) \/ is_ephemeral(event.kind))
    /\ LET l == Plan(p)[held[p] + 1][1] IN
          locks' = [locks EXCEPT ![l].queue = Append(@, p)]
    /\ Goto(p, "waiting")
    /\ UNCHANGED <<Collections, Sequential, held, local, committed>>

\* The lock is granted to its first waiter.
Grant(p) ==
    /\ At(p, "waiting")
    /\ LET l == Plan(p)[held[p] + 1][1]
           mode == Plan(p)[held[p] + 1][2]
       IN /\ locks[l].queue # << >> /\ Head(locks[l].queue) = p
          /\ can_grant(locks[l], mode)
          /\ locks' = [locks EXCEPT
                          ![l] = IF mode = "write"
                                 THEN [@ EXCEPT !.writer = p, !.queue = Tail(@)]
                                 ELSE [@ EXCEPT !.readers = @ \cup {p}, !.queue = Tail(@)]]
    /\ held' = [held EXCEPT ![p] = @ + 1]
    /\ Goto(p, IF held[p] + 1 = Len(Plan(p)) THEN "critical" ELSE "acquire")
    /\ UNCHANGED <<Collections, Sequential, local, committed>>

Commit(p) ==
    committed' = Append(committed,
                    [st |-> State(index', deleted_ids', deleted_coordinates'), by |-> p])

\* index_event up to "Remove events": the scans, and the coordinates of a
\* deletion event.
ScanEvent(p) ==
    /\ At(p, "critical") /\ calls[p].op = "index_event"
    /\ LET event == EventOf(calls[p].event)
           r == index_event(Current, event, now)
       IN IF event.id \in deleted_ids
          THEN /\ Goto(p, "release")
               /\ local' = [local EXCEPT ![p] = Local(r.to_store, r.to_discard, None, None)]
               /\ UNCHANGED deleted_coordinates
          ELSE /\ Goto(p, "retain")
               /\ local' = [local EXCEPT ![p] = Local(r.to_store, r.to_discard, None, None)]
               /\ deleted_coordinates' = r.st.deleted_coordinates
    /\ UNCHANGED <<index, deleted_ids, Sequential, held, locks, committed>>

\* bulk_index up to "Remove events": the loop over the raw events.
ScanBatch(p) ==
    /\ At(p, "critical") /\ calls[p].op = "bulk_index"
    /\ LET acc == index_raw_events(
                     [index |-> index, deleted_ids |-> deleted_ids,
                      deleted_coordinates |-> deleted_coordinates, to_discard |-> {}],
                     not_ephemeral(calls[p].batch), now)
       IN /\ index' = acc.index
          /\ deleted_ids' = acc.deleted_ids
          /\ deleted_coordinates' = acc.deleted_coordinates
          /\ local' = [local EXCEPT ![p] = Local(FALSE, acc.to_discard, None, None)]
    /\ Goto(p, "retain")
    /\ UNCHANGED <<Sequential, held, locks, committed>>

\* index.retain(|e| !to_discard.contains(&e.event_id))
Retain(p) ==
    /\ At(p, "retain")
    /\ index' = IF local[p].to_discard # {} THEN retain(index, local[p].to_discard) ELSE index
    /\ Goto(p, "extend")
    /\ UNCHANGED <<deleted_ids, deleted_coordinates, Sequential, held, locks, local, committed>>

\* deleted_ids.par_extend(to_discard.par_iter())
Extend(p) ==
    /\ At(p, "extend")
    /\ deleted_ids' = IF local[p].to_discard # {}
                      THEN deleted_ids_par_extend(deleted_ids, local[p].to_discard)
                      ELSE deleted_ids
    /\ Goto(p, "insert")
    /\ UNCHANGED <<index, deleted_coordinates, Sequential, held, locks, local>>
    /\ UNCHANGED committed

\* index.insert(EventIndex::from(event)), the last step of an admission.
Insert(p) ==
    /\ At(p, "insert")
    /\ index' = IF local[p].to_store
                THEN insert(index, EventIndex(EventOf(calls[p].event))) ELSE index
    /\ Goto(p, "release")
    /\ UNCHANGED <<deleted_ids, deleted_coordinates, Sequential, held, locks, local>>
    /\ Commit(p)

\* clear empties the three collections.
ClearAll(p) ==
    /\ At(p, "critical") /\ calls[p].op = "clear"
    /\ index' = clear(Current).index
    /\ deleted_ids' = clear(Current).deleted_ids
    /\ deleted_coordinates' = clear(Current).deleted_coordinates
    /\ Goto(p, "release")
    /\ Commit(p)
    /\ UNCHANGED <<Sequential, held, locks, local>>

\* What a read returns on the value of the collections it reads.
ReadValue(call, st) ==
    CASE call.op = "query" -> query(st, call.filters)
      [] call.op = "count" -> count(st, call.filters)
      [] call.op = "has_event_id_been_deleted" ->
            has_event_id_been_deleted(st, call.event)
      [] call.op = "has_coordinate_been_deleted" ->
            has_coordinate_been_deleted(st, call.coordinate[1], call.timestamp)

\* query, count, has_event_id_been_deleted, has_coordinate_been_deleted
\* under their read guards.
Read(p) ==
    /\ At(p, "critical") /\ calls[p].op \notin Writers
    /\ local' = [local EXCEPT ![p] = Local(FALSE, {}, Some(Current), Some(ReadValue(calls[p], Current)))]
    /\ Goto(p, "release")
    /\ UNCHANGED <<Collections, Sequential, held, locks, committed>>

\* The guards are dropped at the end of the function, the last declared
\* first.
Release(p) ==
    /\ At(p, "release")
    /\ LET l == Plan(p)[held[p]][1]
           mode == Plan(p)[held[p]][2]
       IN locks' = [locks EXCEPT
                       ![l] = IF mode = "write" THEN [@ EXCEPT !.writer = 0]
                              ELSE [@ EXCEPT !.readers = @ \ {p}]]
    /\ held' = [held EXCEPT ![p] = @ - 1]
    /\ Goto(p, IF held[p] = 1 THEN "done" ELSE "release")
    /\ UNCHANGED <<Collections, Sequential, local, committed>>

TaskStep(p) ==
    \/ Reject(p) \/ Request(p) \/ Grant(p)
    \/ ScanEvent(p) \/ ScanBatch(p) \/ Retain(p) \/ Extend(p) \/ Insert(p) \/ ClearAll(p)
    \/ Read(p) \/ Release(p)

\* The calls the tasks make.
AllWorkloads ==
    { <<CallIndexEvent(5), CallIndexEvent(11), CallQuery(<<FilterAuthorA>>)>>,
      <<CallIndexEvent(5), CallBulkIndex(<<Raw(EventOf(6)), Raw(EventOf(11))>>),
        CallHasEventId(5)>>,
      <<CallIndexEvent(1), CallIndexEvent(11), CallCount(<<FilterAuthorA>>)>>,
      <<CallIndexEvent(11), CallClear, CallHasCoordinate(CoordAX, 1)>>,
      <<CallIndexEvent(14), CallIndexEvent(6), CallQuery(<<FilterAuthorA, FilterSince>>)>>,
      <<CallIndexEvent(5), CallIndexEvent(11), CallQuery(<<FilterAuthorA>>),
        CallHasEventId(5)>>,
      <<CallIndexEvent(5), CallIndexEvent(11), CallIndexEvent(6),
        CallQuery(<<FilterAuthorA>>)>>,
      <<CallQuery(<<FilterAuthorA>>), CallCount(<<FilterNew>>), CallIndexEvent(5),
        CallClear>> }

Workloads == {w \in AllWorkloads : Len(w) <= MaxTasks}

\* DatabaseIndexes::new(), and every task about to make its call.
InitTasks ==
    /\ index = << >>
    /\ deleted_ids = {}
    /\ deleted_coordinates = EmptyTags
    /\ now = 1
    /\ pre = State(<< >>, {}, EmptyTags)
    /\ result = Idle
    /\ scenario = Scenario({}, {}, FALSE)
    /\ calls \in Workloads
    /\ pc = [p \in DOMAIN calls |-> "acquire"]
    /\ held = [p \in DOMAIN calls |-> 0]
    /\ locks = [l \in Range(LockNames) |-> FreeLock]
    /\ local = [p \in DOMAIN calls |-> NoLocal]
    /\ committed = <<[st |-> State(<< >>, {}, EmptyTags), by |-> 0]>>

NextTasks == \E p \in TaskIds : TaskStep(p)

\* Every task that can take a step takes one in the end: the runtime polls
\* a task that is ready, and a lock that can be granted to its first waiter
\* is granted.
FairTasks == \A p \in TaskIds : WF_vars(TaskStep(p))

SpecTasks == InitTasks /\ [][NextTasks]_vars /\ FairTasks

(***************************************************************************)
(* Vocabulary of the properties.                                           *)
(***************************************************************************)
Ids(idx) == {idx[i].event_id : i \in DOMAIN idx}

Admission == {"index_event", "bulk_index"}

\* The event the last index_event call was given.
Called == EventOf(result.event)

\* The last call was index_event and went past the expiration, ephemeral and
\* tombstone checks.
Admitted ==
    /\ result.op = "index_event"
    /\ ~ is_expired(Called, now)
    /\ ~ is_ephemeral(Called.kind)
    /\ Called.id \notin pre.deleted_ids

\* The entries of idx with the author prefix and the kind of entry.
SameAuthorKind(idx, entry) ==
    {x \in Range(idx) : x.pubkey = entry.pubkey /\ x.kind = entry.kind}

\* The entries of idx with the author prefix, the kind and the d identifier of entry.
SameAddress(idx, entry) ==
    {x \in SameAuthorKind(idx, entry) :
        "d" \in DOMAIN x.tags /\ "d" \in DOMAIN entry.tags
        /\ x.tags["d"] \cap entry.tags["d"] # {}}

Timestamps == {ev.created_at : ev \in Events}

(***************************************************************************)
(* C1: after any sequence of index_event, bulk_index and clear calls, no   *)
(* entry of the index has an event id that is in the tombstone set         *)
(* (deleted_ids), also after an event that is in the index is admitted     *)
(* again.                                                                  *)
(***************************************************************************)
C1_NoTombstonedEntry ==
    \A i \in DOMAIN index : index[i].event_id \notin deleted_ids

(***************************************************************************)
(* C2: after any sequence of admissions, the index holds at most one entry *)
(* for every author prefix and every replaceable kind.                     *)
(***************************************************************************)
C2_AtMostOneReplaceable ==
    \A i, j \in DOMAIN index :
        (/\ is_replaceable(index[i].kind)
         /\ index[i].pubkey = index[j].pubkey
         /\ index[i].kind = index[j].kind) => i = j

(***************************************************************************)
(* C3: idempotence of admission: index_event called with an event that is  *)
(* in the index (it was admitted before) returns to_store = false and      *)
(* leaves the number of entries unchanged, whatever the kind.              *)
(***************************************************************************)
C3_Idempotent ==
    (result.op = "index_event" /\ result.event \in Ids(pre.index))
        => (result.to_store = FALSE /\ Len(index) = Len(pre.index))

(***************************************************************************)
(* C4: coordinate deletion is monotone: across an admission the timestamp  *)
(* recorded for a coordinate never decreases, so that                      *)
(* has_coordinate_been_deleted(coord, t), once true, is true after any     *)
(* later admission of a deletion, also of one with an older created_at.    *)
(***************************************************************************)
C4_CoordinateDeletionMonotone ==
    result.op \in Admission =>
        \A c \in DOMAIN pre.deleted_coordinates :
            /\ c \in DOMAIN deleted_coordinates
            /\ deleted_coordinates[c] >= pre.deleted_coordinates[c]
            /\ \A t \in Timestamps :
                  has_coordinate_been_deleted(pre, c, t)
                      => has_coordinate_been_deleted(Current, c, t)

(***************************************************************************)
(* C5: no two entries of the index share an event id; inserting an entry   *)
(* whose id is present does not add a second entry.                        *)
(***************************************************************************)
C5_NoDuplicateIds ==
    \A i, j \in DOMAIN index : index[i].event_id = index[j].event_id => i = j

\* An event that was in the index has been admitted again with to_store = true.
C5_Witness ==
    /\ result.op = "index_event"
    /\ result.to_store
    /\ result.event \in Ids(pre.index)
    /\ result.event \in Ids(index)
    /\ Len(index) >= 2

(***************************************************************************)
(* C6: after any sequence of admissions, the index holds at most one entry *)
(* for every author prefix, every parameterized replaceable kind and every *)
(* d identifier.                                                           *)
(***************************************************************************)
C6_AtMostOneParameterized ==
    \A i, j \in DOMAIN index :
        (/\ is_parameterized_replaceable(index[i].kind)
         /\ index[j] \in SameAddress(index, index[i])) => i = j

\* A parameterized replaceable event has been admitted while another event
\* with its author prefix, kind and identifier was in the index.
C6_Witness ==
    /\ Admitted
    /\ is_parameterized_replaceable(Called.kind)
    /\ result.to_store
    /\ \E x \in SameAddress(pre.index, EventIndex(Called)) : x.event_id # Called.id

(***************************************************************************)
(* C7: deletion authority.  An event deletion by author B removes no entry *)
(* of another author prefix, tombstones no id of another author prefix and *)
(* records no coordinate of another author prefix; when everything it      *)
(* references (e tag ids in the index, a tag coordinates) belongs to other *)
(* author prefixes, the only change is that the deletion itself is stored. *)
(***************************************************************************)
ForeignOnly(deletion, idx) ==
    /\ \A c \in deletion.a : PublicKeyPrefix(c.pubkey) # PublicKeyPrefix(deletion.pubkey)
    /\ \A x \in Range(idx) :
          x.event_id \in deletion.e => x.pubkey # PublicKeyPrefix(deletion.pubkey)

C7_DeletionAuthority ==
    (Admitted /\ Called.kind = EventDeletion) =>
        LET author == PublicKeyPrefix(Called.pubkey) IN
        /\ \A x \in Range(pre.index) : x.pubkey # author => x \in Range(index)
        /\ \A id \in deleted_ids \ pre.deleted_ids :
              \E x \in Range(pre.index) : x.event_id = id /\ x.pubkey = author
        /\ \A c \in DOMAIN deleted_coordinates :
              PublicKeyPrefix(c.pubkey) # author
                  => (/\ c \in DOMAIN pre.deleted_coordinates
                      /\ deleted_coordinates[c] = pre.deleted_coordinates[c])
        /\ ForeignOnly(Called, pre.index) =>
              /\ result.to_store
              /\ result.to_discard = {}
              /\ Range(index) = Range(pre.index) \cup {EventIndex(Called)}
              /\ deleted_ids = pre.deleted_ids
              /\ deleted_coordinates = pre.deleted_coordinates

\* A deletion by B that references, by e tag and by a tag, entries of A that
\* are in the index has been admitted.
C7_Witness ==
    /\ Admitted
    /\ Called.kind = EventDeletion
    /\ ForeignOnly(Called, pre.index)
    /\ \E x \in Range(pre.index) : x.event_id \in Called.e
    /\ \E c \in Called.a :
          internal_parallel_query(pre.index, pre.deleted_ids, FilterIndex(CoordinateFilter(c))) # << >>
    /\ Called.id \notin Ids(pre.index)
    /\ Called.id \in Ids(index)

(***************************************************************************)
(* C8: after index_event admits a replaceable event of kind K by author A, *)
(* exactly one entry with (A, K) is in the index, the one with the         *)
(* greatest created_at among the previous entry and the new event: on a    *)
(* tie the new event, and when the previous entry is strictly newer the    *)
(* new event gets to_store = false and the previous entry stays.           *)
(***************************************************************************)
C8_ReplaceableSurvivor ==
    (Admitted /\ is_replaceable(Called.kind)) =>
        LET new == EventIndex(Called)
            before == SameAuthorKind(pre.index, new)
            after == SameAuthorKind(index, new)
        IN /\ Cardinality(after) = 1
           /\ \A x \in before :
                 IF x.created_at > new.created_at
                 THEN result.to_store = FALSE /\ x \in after
                 ELSE result.to_store /\ after = {new}
           /\ before = {} => (result.to_store /\ after = {new})

(***************************************************************************)
(* C9: after index_event admits a parameterized replaceable event of kind  *)
(* K by author A with identifier d, exactly one entry with (A, K, d) is in *)
(* the index: a previous entry with created_at >= the new one's stays and  *)
(* the new event gets to_store = false (a tie favours the previous entry), *)
(* a previous entry with a smaller created_at is discarded and replaced.   *)
(***************************************************************************)
C9_ParameterizedSurvivor ==
    (Admitted /\ is_parameterized_replaceable(Called.kind) /\ identifier(Called) # None) =>
        LET new == EventIndex(Called)
            before == SameAddress(pre.index, new)
            after == SameAddress(index, new)
        IN /\ Cardinality(after) = 1
           /\ \A x \in before :
                 IF x.created_at >= new.created_at
                 THEN result.to_store = FALSE /\ after = {x}
                 ELSE /\ result.to_store
                      /\ after = {new}
                      /\ x.event_id \in result.to_discard
           /\ before = {} => (result.to_store /\ after = {new})

\* A parameterized replaceable event has been refused on a tie with another
\* event of its (A, K, d).
C9_Witness ==
    /\ Admitted
    /\ is_parameterized_replaceable(Called.kind)
    /\ identifier(Called) # None
    /\ result.to_store = FALSE
    /\ \E x \in SameAddress(pre.index, EventIndex(Called)) :
          x.created_at = Called.created_at /\ x.event_id # Called.id
    /\ SameAddress(index, EventIndex(Called)) = SameAddress(pre.index, EventIndex(Called))

(***************************************************************************)
(* C10: index_event called with an event whose id is in the tombstone set  *)
(* returns to_store = false and to_discard = {that id} and leaves the      *)
(* entries, the tombstones and the deleted coordinates unchanged.          *)
(***************************************************************************)
C10_TombstonedRefused ==
    (result.op = "index_event" /\ result.event \in pre.deleted_ids) =>
        /\ result.to_store = FALSE
        /\ result.to_discard = {result.event}
        /\ Current = pre

(***************************************************************************)
(* C11: in every reachable state and for every list of filters, also one   *)
(* that contains an empty filter, no event id that query returns is in the *)
(* tombstone set: has_event_id_been_deleted is false for every returned    *)
(* id.                                                                     *)
(***************************************************************************)
C11_QueryNoTombstoned ==
    result.op = "query" =>
        \A i \in DOMAIN result.ids : ~ has_event_id_been_deleted(Current, result.ids[i])

(***************************************************************************)
(* C12: the tombstone set is append-only while the index is live: no       *)
(* index_event, bulk_index, query, count or has_..._been_deleted call      *)
(* removes an id from it, so has_event_id_been_deleted(id), once true,     *)
(* stays true; only clear empties it.                                      *)
(***************************************************************************)
C12_TombstonesAppendOnly ==
    /\ result.op # "clear" =>
          \A ev \in Events :
              has_event_id_been_deleted(pre, ev.id) => has_event_id_been_deleted(Current, ev.id)
    /\ result.op = "clear" => deleted_ids = {}

\* An admission has added a tombstone to a tombstone set that was not empty.
C12_Witness ==
    /\ result.op \in Admission
    /\ pre.deleted_ids # {}
    /\ deleted_ids \ pre.deleted_ids # {}
    /\ index # << >>

(***************************************************************************)
(* C13: index_event called with an event that is expired relative to the   *)
(* current time returns to_store = false and a discard set that contains   *)
(* the event's own id, and does not insert the event into the index.       *)
(***************************************************************************)
C13_ExpiredDiscarded ==
    (result.op = "index_event" /\ is_expired(Called, now)) =>
        /\ result.to_store = FALSE
        /\ Called.id \in result.to_discard
        /\ index = pre.index

(***************************************************************************)
(* C14: ephemeral events (kind in 20000..29999) never enter the index:     *)
(* index_event returns to_store = false with an empty discard set and      *)
(* leaves entries, tombstones and deleted coordinates unchanged;           *)
(* bulk_index skips them, so that the batch has the effect of the batch    *)
(* without them; no reachable state has an entry of an ephemeral kind.     *)
(***************************************************************************)
WithoutEphemeral(batch) ==
    LET keep(raw) == ~ (raw.kind >= 20000 /\ raw.kind <= 29999)
    IN SelectSeq(batch, keep)

C14_EphemeralNeverIndexed ==
    /\ \A i \in DOMAIN index : ~ (index[i].kind >= 20000 /\ index[i].kind <= 29999)
    /\ (result.op = "index_event" /\ Called.kind >= 20000 /\ Called.kind <= 29999) =>
          /\ result.to_store = FALSE
          /\ result.to_discard = {}
          /\ Current = pre
    /\ result.op = "bulk_index" =>
          LET r == bulk_index(pre, WithoutEphemeral(result.batch), now) IN
          /\ Current = r.st
          /\ result.to_discard = r.to_discard

\* bulk_index was given an ephemeral event together with events that changed
\* the index.
C14_Witness ==
    /\ result.op = "bulk_index"
    /\ \E i \in DOMAIN result.batch : is_ephemeral(result.batch[i].kind)
    /\ index # pre.index
    /\ pre.index # << >>

(***************************************************************************)
(* C15: a parameterized replaceable event that carries no d identifier is  *)
(* never stored: index_event returns to_store = false, discards nothing    *)
(* and leaves the entries unchanged; in a bulk_index batch it has no       *)
(* effect; no entry of a parameterized replaceable kind lacks a d tag.     *)
(***************************************************************************)
WithIdentifier(batch) ==
    LET keep(raw) == ~ (is_parameterized_replaceable(raw.kind) /\ Len(raw.d) = 0)
    IN SelectSeq(batch, keep)

C15_NoIdentifierNotStored ==
    /\ \A i \in DOMAIN index :
          is_parameterized_replaceable(index[i].kind) => "d" \in DOMAIN index[i].tags
    /\ (/\ result.op = "index_event"
        /\ is_parameterized_replaceable(Called.kind)
        /\ Len(Called.d) = 0) =>
          /\ result.to_store = FALSE
          /\ result.to_discard = {}
          /\ Current = pre
    /\ result.op = "bulk_index" =>
          LET r == bulk_index(pre, WithIdentifier(result.batch), now) IN
          /\ Current = r.st
          /\ result.to_discard = r.to_discard

\* index_event was given a parameterized replaceable event without d tag
\* while entries of its author and kind were in the index.
C15_Witness ==
    /\ result.op = "index_event"
    /\ is_parameterized_replaceable(Called.kind)
    /\ identifier(Called) = None
    /\ SameAuthorKind(pre.index, EventIndex(Called)) # {}

(***************************************************************************)
(* C16: in every reachable state count([empty filter]) is the number of    *)
(* entries of the index, and the length of query([empty filter]) is        *)
(* count([empty filter]).                                                  *)
(***************************************************************************)
C16_CountAllEntries ==
    /\ count(Current, <<FilterNew>>) = Cardinality(Range(index))
    /\ Len(query(Current, <<FilterNew>>)) = count(Current, <<FilterNew>>)
    /\ (result.op = "count" /\ result.filters = <<FilterNew>>) =>
          result.count = Cardinality(Range(index))
    /\ (result.op = "query" /\ result.filters = <<FilterNew>>) =>
          Len(result.ids) = Cardinality(Range(index))

\* count([empty filter]) has returned while the index held several entries,
\* one of them with a tombstoned id.
C16_Witness ==
    /\ result.op = "count"
    /\ result.filters = <<FilterNew>>
    /\ result.count >= 2
    /\ \E i \in DOMAIN index : index[i].event_id \in deleted_ids

(***************************************************************************)
(* C17: for every list of filters the ids query returns are in the total   *)
(* order of the index (created_at descending, ties by event id ascending)  *)
(* and no id is returned twice, also when several filters match the same   *)
(* entry; for the empty filter the ids are those of all the entries.       *)
(***************************************************************************)
C17_QueryOrdered ==
    result.op = "query" =>
        /\ \A i, j \in DOMAIN result.ids :
              i < j =>
                LET a == EventOf(result.ids[i])
                    b == EventOf(result.ids[j])
                IN \/ a.created_at > b.created_at
                   \/ (a.created_at = b.created_at /\ a.id < b.id)
        /\ result.filters = <<FilterNew>> =>
              (Range(result.ids) = Ids(index) /\ Len(result.ids) = Len(index))

\* query has returned several ids for two filters that match the same entry.
C17_Witness ==
    /\ result.op = "query"
    /\ result.filters = <<FilterAuthorA, FilterSince>>
    /\ Len(result.ids) >= 3
    /\ \E i \in DOMAIN index :
          /\ index[i].event_id \notin deleted_ids
          /\ match_event(FilterIndex(FilterAuthorA), index[i])
          /\ match_event(FilterIndex(FilterSince), index[i])
    /\ \E i, j \in DOMAIN result.ids :
          i # j /\ EventOf(result.ids[i]).created_at = EventOf(result.ids[j]).created_at

(***************************************************************************)
(* C18: a raw event whose id bytes are not a 32-byte event id fails        *)
(* admission without a change of entries, tombstones or deleted            *)
(* coordinates, and inside bulk_index the failure does not end the batch:  *)
(* the other events of the batch are processed as if the malformed one     *)
(* were absent.                                                            *)
(***************************************************************************)
WellFormed(batch) ==
    LET keep(raw) == Len(raw.id) = 32
    IN SelectSeq(batch, keep)

C18_MalformedSkipped ==
    /\ LET acc == [index |-> index, deleted_ids |-> deleted_ids,
                   deleted_coordinates |-> deleted_coordinates, to_discard |-> {}]
       IN index_raw_event(acc, MalformedRaw, now) = acc
    /\ result.op = "bulk_index" =>
          LET r == bulk_index(pre, WellFormed(result.batch), now) IN
          /\ Current = r.st
          /\ result.to_discard = r.to_discard

\* bulk_index was given a malformed raw event followed by events that
\* changed the index.
C18_Witness ==
    /\ result.op = "bulk_index"
    /\ Len(result.batch) >= 2
    /\ result.batch[1] = MalformedRaw
    /\ index # pre.index
    /\ result.to_discard # {}

(***************************************************************************)
(* C19: when index_event admits an event deletion D by author A with       *)
(* created_at t, the entries removed are exactly those with created_at <=  *)
(* t that are referenced by an e tag of D and have A's author prefix, or   *)
(* match an a tag coordinate of D owned by A (same author prefix, same     *)
(* kind, and same d identifier when the coordinate's identifier is not     *)
(* empty); entries created after t are kept, every removed id is           *)
(* tombstoned, and D itself is stored.                                     *)
(***************************************************************************)
\* The entry is at the coordinate.
AtCoordinate(x, c) ==
    /\ x.pubkey = PublicKeyPrefix(c.pubkey)
    /\ x.kind = c.kind
    /\ c.identifier # "" => ("d" \in DOMAIN x.tags /\ c.identifier \in x.tags["d"])

\* The entries of idx the deletion is entitled to remove.
Deletable(idx, deletion) ==
    {x \in Range(idx) :
        /\ x.created_at <= deletion.created_at
        /\ \/ (x.event_id \in deletion.e /\ x.pubkey = PublicKeyPrefix(deletion.pubkey))
           \/ \E c \in deletion.a :
                 /\ PublicKeyPrefix(c.pubkey) = PublicKeyPrefix(deletion.pubkey)
                 /\ AtCoordinate(x, c)}

C19_DeletionRemovesExactly ==
    (Admitted /\ Called.kind = EventDeletion) =>
        /\ Range(pre.index) \ Range(index) = Deletable(pre.index, Called)
        /\ \A x \in Range(pre.index) : x.created_at > Called.created_at => x \in Range(index)
        /\ \A x \in Range(pre.index) \ Range(index) : x.event_id \in deleted_ids
        /\ result.to_store
        /\ EventIndex(Called) \in Range(index)

(***************************************************************************)
(* C20: admitting an event that is not a deletion removes an entry only if *)
(* the entry has the author prefix and the kind of the new event and, for  *)
(* a parameterized replaceable kind, carries the new event's d identifier; *)
(* entries of another author, kind or identifier stay; admitting an event  *)
(* of a regular kind (not replaceable, not parameterized replaceable, not  *)
(* a deletion) returns to_store = true and removes nothing.  For           *)
(* bulk_index with a batch without deletions, every removed entry has the  *)
(* author prefix, kind and identifier of an event of the batch.            *)
(***************************************************************************)
\* The entry x may be replaced by the event: same author prefix, same kind
\* and, for a parameterized replaceable kind, a common d identifier.
Replaces(event, x) ==
    /\ x.pubkey = SubSeq(event.pubkey, 1, 8)
    /\ x.kind = event.kind
    /\ (event.kind >= 30000 /\ event.kind < 40000) =>
          ("d" \in DOMAIN x.tags /\ Range(event.d) \cap x.tags["d"] # {})

C20_NonDeletionFrame ==
    /\ (Admitted /\ Called.kind # EventDeletion) =>
          /\ \A x \in Range(pre.index) \ Range(index) : Replaces(Called, x)
          /\ (~ is_replaceable(Called.kind) /\ ~ is_parameterized_replaceable(Called.kind)) =>
                /\ result.to_store
                /\ result.to_discard = {}
                /\ Range(pre.index) \subseteq Range(index)
                /\ deleted_ids = pre.deleted_ids
    /\ (/\ result.op = "bulk_index"
        /\ \A i \in DOMAIN result.batch : result.batch[i].kind # EventDeletion) =>
          \A x \in Range(pre.index) \ Range(index) :
              \E i \in DOMAIN result.batch : Replaces(result.batch[i], x)

\* A replaceable or parameterized replaceable event has replaced an entry
\* while entries of its author with another kind or identifier were in
\* the index.
C20_Witness ==
    /\ Admitted
    /\ Called.kind # EventDeletion
    /\ Range(pre.index) \ Range(index) # {}
    /\ \E x \in Range(pre.index) :
          /\ x.pubkey = PublicKeyPrefix(Called.pubkey)
          /\ ~ Replaces(Called, x)
          /\ x.created_at <= Called.created_at
          /\ x.event_id \notin pre.deleted_ids

(***************************************************************************)
(* C21: for a filter with limit n that matches m entries that are not      *)
(* tombstoned, query contributes exactly the first min(n, m) of those      *)
(* matches in index order (newest created_at first, ties by ascending id)  *)
(* to the result, before the union with the matches of the other filters.  *)
(***************************************************************************)
\* x comes before y in the order of the index.
Before(x, y) ==
    \/ x.created_at > y.created_at
    \/ (x.created_at = y.created_at /\ x.event_id < y.event_id)

\* The entries of the index that are not tombstoned and match the filter.
LiveMatches(filter) ==
    {x \in Range(index) :
        x.event_id \notin deleted_ids /\ match_event(FilterIndex(filter), x)}

\* What the filter contributes is the first min(n, m) of its live matches.
FirstMatches(filter) ==
    LET contributed == filter_matches(index, deleted_ids, filter)
        n == filter.limit[1]
        m == Cardinality(LiveMatches(filter))
    IN /\ Range(contributed) \subseteq LiveMatches(filter)
       /\ Len(contributed) = (IF n <= m THEN n ELSE m)
       /\ \A i, j \in DOMAIN contributed : i < j => Before(contributed[i], contributed[j])
       /\ \A x \in Range(contributed), y \in LiveMatches(filter) \ Range(contributed) :
             Before(x, y)

C21_QueryLimit ==
    /\ FirstMatches(FilterLimit)
    /\ FirstMatches(FilterAuthorALimit)
    /\ (result.op = "query" /\ result.filters = <<FilterLimit>>) =>
          /\ Len(result.ids) = Len(filter_matches(index, deleted_ids, FilterLimit))
          /\ \A i \in DOMAIN result.ids :
                result.ids[i] = filter_matches(index, deleted_ids, FilterLimit)[i].event_id
    /\ (result.op = "query" /\ result.filters = <<FilterAuthorALimit, FilterSince>>) =>
          Range(result.ids) =
              {x.event_id : x \in Range(filter_matches(index, deleted_ids, FilterAuthorALimit))
                                    \cup LiveMatches(FilterSince)}

\* query has returned for a filter with limit 2 that matches more than two
\* entries, two of them with the same created_at, while a tombstoned entry
\* was in the index.
C21_Witness ==
    /\ result.op = "query"
    /\ result.filters = <<FilterLimit>>
    /\ Cardinality(LiveMatches(FilterLimit)) >= 3
    /\ Len(result.ids) = 2
    /\ EventOf(result.ids[1]).created_at = EventOf(result.ids[2]).created_at
    /\ \E i \in DOMAIN index : index[i].event_id \in deleted_ids

(***************************************************************************)
(* C22: for a filter that is not empty, with limit L, that matches m       *)
(* entries that are not tombstoned, count adds L to the total when L >= m  *)
(* and m otherwise (max(L, m)); without a limit it adds m; the total is    *)
(* the sum over the filters, with no de-duplication across filters.        *)
(* Stated for the lists without an empty filter.                           *)
(***************************************************************************)
\* max(L, m) with a limit, m without.
Added(filter) ==
    LET m == Cardinality(LiveMatches(filter))
    IN IF filter.limit = None THEN m
       ELSE IF filter.limit[1] >= m THEN filter.limit[1] ELSE m

RECURSIVE SumAdded(_)
SumAdded(filters) ==
    IF Len(filters) = 0 THEN 0 ELSE Added(Head(filters)) + SumAdded(Tail(filters))

C22_CountLimitMax ==
    (result.op = "count" /\ \A i \in DOMAIN result.filters : result.filters[i] # FilterNew) =>
        result.count = SumAdded(result.filters)

(***************************************************************************)
(* C22 as amended: the same for the filters whose since is not after their *)
(* until; a filter with since > until is skipped and adds nothing, also    *)
(* when it has a limit; at the first empty filter the total becomes the    *)
(* number of entries of the index and the filters after it are not looked  *)
(* at.                                                                     *)
(***************************************************************************)
Skipped(filter) ==
    filter.since # None /\ filter.until # None /\ filter.since[1] > filter.until[1]

RECURSIVE SumAddedNotSkipped(_)
SumAddedNotSkipped(filters) ==
    IF Len(filters) = 0 THEN 0
    ELSE (IF Skipped(Head(filters)) THEN 0 ELSE Added(Head(filters)))
            + SumAddedNotSkipped(Tail(filters))

C22_CountLimitMaxNotSkipped ==
    result.op = "count" =>
        IF \E i \in DOMAIN result.filters : result.filters[i] = FilterNew
        THEN result.count = Cardinality(Range(index))
        ELSE result.count = SumAddedNotSkipped(result.filters)

\* count has returned for a filter with limit 1 that matches several entries
\* and a second filter that matches one of them again.
C22_Witness ==
    /\ result.op = "count"
    /\ result.filters = <<FilterAuthorALimit, FilterSince>>
    /\ Cardinality(LiveMatches(FilterAuthorALimit)) >= 2
    /\ LiveMatches(FilterAuthorALimit) \cap LiveMatches(FilterSince) # {}
    /\ result.count > Cardinality(LiveMatches(FilterAuthorALimit) \cup LiveMatches(FilterSince))

(***************************************************************************)
(* C25: bulk_index agrees with one-at-a-time admission: for every starting *)
(* state and every batch of well-formed events, bulk_index leaves the      *)
(* entries, tombstones and deleted coordinates that calling index_event on *)
(* the events of the batch one after another, in the iteration order of    *)
(* the batch, leaves, and returns the union of the to_discard sets of      *)
(* those calls.                                                            *)
(***************************************************************************)
RECURSIVE OneAtATime(_, _, _)
\* index_event on every event of the batch in turn; r is the state and the
\* union of the to_discard sets so far.
OneAtATime(r, batch, t_now) ==
    IF Len(batch) = 0 THEN r
    ELSE LET call == index_event(r.st, EventOf(BigEndian(Head(batch).id)), t_now)
         IN OneAtATime([st |-> call.st, to_discard |-> r.to_discard \cup call.to_discard],
                       Tail(batch), t_now)

C25_BulkAgreesWithOneAtATime ==
    (result.op = "bulk_index" /\ WellFormed(result.batch) = result.batch) =>
        LET r == OneAtATime([st |-> pre, to_discard |-> {}], result.batch, now) IN
        /\ Current = r.st
        /\ result.to_discard = r.to_discard

(***************************************************************************)
(* C26: an event deletion tombstones only ids that are in the index when   *)
(* it is admitted: when a deletion D by author A with created_at t that    *)
(* references id X by e tag is admitted while X is absent, X is not added  *)
(* to the tombstones, and a later index_event of X (by A, regular kind,    *)
(* created_at <= t, not expired) returns to_store = true and inserts X, so *)
(* that the final state depends on the arrival order of D and X.           *)
(***************************************************************************)
\* D is a deletion that references X by e tag, X is a regular event of D's
\* author that is not newer than D.
DeletesById(D, X) ==
    /\ D.kind = 5
    /\ X.id \in D.e
    /\ X.pubkey = D.pubkey
    /\ X.created_at <= D.created_at
    /\ X.kind = 1

\* The collections after index_event(first); index_event(second) from st.
InOrder(st, first, second) ==
    index_event(index_event(st, first, now).st, second, now).st

C26_DeletionBeforeTarget ==
    /\ (Admitted /\ Called.kind = 5) =>
          \A id \in Called.e :
              id \notin Ids(pre.index) => (id \in deleted_ids <=> id \in pre.deleted_ids)
    /\ \A D \in ScenarioEvents :
          (/\ result.op = "index_event"
           /\ DeletesById(D, Called)
           /\ D.id \in Ids(pre.index)
           /\ Called.id \notin pre.deleted_ids
           /\ ~ is_expired(Called, now)) =>
              /\ result.to_store
              /\ Called.id \in Ids(index)
              /\ Called.id \notin deleted_ids
    /\ \A D \in ScenarioEvents, X \in ScenarioEvents :
          (/\ DeletesById(D, X)
           /\ ~ is_expired(D, now) /\ ~ is_expired(X, now)
           /\ {D.id, X.id} \cap (Ids(index) \cup deleted_ids) = {}) =>
              /\ X.id \in Ids(InOrder(Current, D, X).index)
              /\ X.id \notin InOrder(Current, D, X).deleted_ids
              /\ X.id \notin Ids(InOrder(Current, X, D).index)
              /\ X.id \in InOrder(Current, X, D).deleted_ids

\* The event a deletion in the index references has arrived after the
\* deletion and has been stored.
C26_Witness ==
    /\ result.op = "index_event"
    /\ result.to_store
    /\ \E D \in ScenarioEvents :
          /\ DeletesById(D, Called)
          /\ D.id \in Ids(pre.index)
    /\ Called.id \notin Ids(pre.index)
    /\ Called.id \in Ids(index)
    /\ deleted_ids # {}

(***************************************************************************)
(* C27: index_event never gives the embedding store contradictory          *)
(* instructions: it does not return to_store = true together with a        *)
(* to_discard set that contains the id of the admitted event, and whenever *)
(* it returns to_store = true the id of the event is in the index and not  *)
(* in the tombstones after the call.                                       *)
(***************************************************************************)
C27_NoContradictoryResult ==
    (result.op = "index_event" /\ result.to_store) =>
        /\ result.event \notin result.to_discard
        /\ result.event \in Ids(index)
        /\ result.event \notin deleted_ids

(***************************************************************************)
(* C23: under any interleaving of index_event, bulk_index, clear, query,   *)
(* count, has_event_id_been_deleted and has_coordinate_been_deleted calls  *)
(* the locks are taken in the fixed order index, deleted_ids,              *)
(* deleted_coordinates (a task that awaits a lock holds only locks that    *)
(* come before it), no reachable state is a deadlock (some task can take   *)
(* a step unless every call has returned), and with fair lock granting     *)
(* every call returns in the end.                                          *)
(***************************************************************************)
Holds(p, l) == locks[l].writer = p \/ p \in locks[l].readers

Awaits(p, l) == p \in Range(locks[l].queue)

LocksInOrder ==
    \A p \in Tasks : \A h, l \in Range(LockNames) :
        (Holds(p, h) /\ Awaits(p, l)) => Rank(h) < Rank(l)

AllDone == \A p \in Tasks : pc[p] = "done"

NotStuck == AllDone \/ ENABLED NextTasks

C23_OrderedLocksNoDeadlock ==
    /\ [](LocksInOrder /\ NotStuck)
    /\ <>AllDone

\* An admission holds index and awaits deleted_ids, which a reader holds,
\* while another task awaits index.
C23_Witness ==
    \E p, q \in Tasks :
        /\ p # q
        /\ calls[p].op \in Writers
        /\ Holds(p, "index") /\ Awaits(p, "deleted_ids")
        /\ locks["deleted_ids"].readers # {}
        /\ Awaits(q, "index")

(***************************************************************************)
(* C24: admissions are serialized and reads see consistent snapshots.      *)
(* Under any interleaving, the collections a query, count or has_..._been_ *)
(* deleted call reads are, when it reads them, as the last complete        *)
(* admission left them (never with an admission's removals applied but     *)
(* its tombstones or its insertion not), and the value it returns is the   *)
(* value of the call on such a state; every admission leaves the state     *)
(* that its call makes of the state the admission before it left, so the   *)
(* later of two admissions observes all effects of the earlier one.  The   *)
(* read calls take only the locks of the collections they read.            *)
(***************************************************************************)
\* The collections a read call reads.
ReadSet(op) ==
    CASE op \in {"query", "count"} -> {"index", "deleted_ids"}
      [] op = "has_event_id_been_deleted" -> {"deleted_ids"}
      [] op = "has_coordinate_been_deleted" -> {"deleted_coordinates"}

Agrees(view, st, op) == \A c \in ReadSet(op) : view[c] = st[c]

Readers == {p \in Tasks : calls[p].op \notin Writers}

\* The state an admission makes of the state st.
Apply(call, st) ==
    CASE call.op = "index_event" -> index_event(st, EventOf(call.event), now).st
      [] call.op = "bulk_index" -> bulk_index(st, call.batch, now).st
      [] call.op = "clear" -> clear(st)

ReadsComplete ==
    \A p \in Readers :
        pc[p] = "critical" => Agrees(Current, committed[Len(committed)].st, calls[p].op)

ViewsCommitted ==
    \A p \in Readers :
        local[p].view # None =>
            \E k \in DOMAIN committed :
                /\ Agrees(local[p].view[1], committed[k].st, calls[p].op)
                /\ local[p].value[1] = ReadValue(calls[p], committed[k].st)

Serialized ==
    \A k \in DOMAIN committed :
        k > 1 => committed[k].st = Apply(calls[committed[k].by], committed[k - 1].st)

C24_SerializedSnapshots == ReadsComplete /\ ViewsCommitted /\ Serialized

\* A read has returned what it computed from the state between two
\* admissions, the first of which removed an entry.
C24_Witness ==
    \E p \in Readers : \E k \in DOMAIN committed :
        /\ pc[p] = "done" /\ local[p].view # None
        /\ 1 < k /\ k < Len(committed)
        /\ local[p].view[1] = committed[k].st
        /\ committed[k].st.deleted_ids # {}
        /\ committed[k + 1].st # committed[k].st

====
